---- MODULE Spec2Model ----
(***************************************************************************)
(* A model of snmpkit's OID trie (src/src/oid/trie.rs) and of the OID      *)
(* ordering it relies on (src/src/oid/mod.rs).                             *)
(*                                                                         *)
(* The trie is kept as the nested structure the code keeps: a node is a    *)
(* record [value, children], children being a map from sub-identifier to   *)
(* node (a BTreeMap, iterated in ascending key order).  One call of the    *)
(* API is one action; the call and what it returned are recorded in op,    *)
(* arg, val and ret, and the caller lets go of the result (Release)        *)
(* before the next call.                                                   *)
(***************************************************************************)
EXTENDS Integers, Sequences, FiniteSets, TLC

VARIABLES root, len, op, arg, val, ret, panicked, iter, out

vars == <<root, len, op, arg, val, ret, panicked, iter, out>>

(***************************************************************************)
(* Bounds of the model.                                                    *)
(***************************************************************************)
\* Longest OID stored in the trie; queries are one sub-identifier longer.
MaxDepth == 2
\* Most entries the trie holds at once.
MaxEntries == 2

\* Sub-identifiers and stored values the calls draw their arguments from.
Parts == {1, 2}
Values == {"a", "b"}

RECURSIVE SeqsUpTo(_)
SeqsUpTo(n) ==
    IF n = 0 THEN {<<>>}
    ELSE LET S == SeqsUpTo(n - 1)
         IN  S \cup {Append(s, p) : s \in {t \in S : Len(t) = n - 1}, p \in Parts}

(***************************************************************************)
(* Option<T>: None is the empty sequence, Some(x) the one-element one.     *)
(***************************************************************************)
None == <<>>
Some(x) == <<x>>
IsSome(o) == o # <<>>
Unwrap(o) == o[1]

Min(S) == CHOOSE x \in S : \A y \in S : x <= y

(***************************************************************************)
(* Oid                                                                     *)
(***************************************************************************)
\* A slip in the constructor: the check for the empty sequence is left out.
Oid_new_unchecked(parts) == Some(parts)

\* Oid::new: Err(Empty) (None here) for the empty sequence.
Oid_new(parts) == IF Len(parts) = 0 THEN None ELSE Some(parts)

\* Oid::parent: None for an OID of one sub-identifier.
Oid_parent(oid) ==
    IF Len(oid) <= 1 THEN None ELSE Some(SubSeq(oid, 1, Len(oid) - 1))

\* Oid::child
Oid_child(oid, sub_id) == Append(oid, sub_id)

\* The OIDs of at most n sub-identifiers the public constructors hand out:
\* Oid::new (from_slice and from_str end in it) on every sequence, and parent
\* and child of those.
ConstructedOids(n) ==
    LET made == {Unwrap(Oid_new(s)) : s \in {t \in SeqsUpTo(n) : IsSome(Oid_new(t))}}
    IN  made
        \cup {Unwrap(Oid_parent(o)) : o \in {m \in made : IsSome(Oid_parent(m))}}
        \cup {Oid_child(o, p) : o \in {m \in made : Len(m) < n}, p \in Parts}

KeyOids == ConstructedOids(MaxDepth)
QueryOids == ConstructedOids(MaxDepth + 1)

\* Ord for Oid: the lexicographic order of the parts (Vec<u32>::cmp); a
\* strict prefix is smaller.
OidLess(a, b) ==
    \E i \in 1..Len(b) :
        /\ i <= Len(a) + 1
        /\ \A j \in 1..(i - 1) : a[j] = b[j]
        /\ (i = Len(a) + 1 \/ a[i] < b[i])

\* Oid::starts_with
starts_with(oid, prefix) ==
    /\ Len(prefix) <= Len(oid)
    /\ SubSeq(oid, 1, Len(prefix)) = prefix

(***************************************************************************)
(* TrieNode                                                                *)
(***************************************************************************)
\* TrieNode::default
TrieNode_default == [value |-> None, children |-> <<>>]

\* A slip in the pruning: the dead child is left in the map.
MapRemove_none(m, k) == m

\* BTreeMap::remove
MapRemove(m, k) == [x \in (DOMAIN m) \ {k} |-> m[x]]

\* A slip in the descent: a child that is already there is worked on as a
\* copy, and the copy is dropped.
MapPut_keep_old(m, k, v) == m @@ (k :> v)

\* BTreeMap::insert / the slot entry(part) hands out
MapPut(m, k, v) == (k :> v) @@ m

\* A slip in the descent: the child at part is always made afresh.
entry_always_default(node, part) == TrieNode_default

\* entry(part).or_default(): the child at part, a fresh node if there is none.
entry_or_default(node, part) ==
    IF part \in DOMAIN node.children THEN node.children[part]
    ELSE TrieNode_default

\* A slip in the counter: incremented on every insert.
len_after_insert_always(n, old) == n + 1

\* old.is_none() => self.len += 1
len_after_insert(n, old) == IF old = None THEN n + 1 ELSE n

\* A slip in the counter: decremented on every remove.
len_after_remove_always(n, removed) == n - 1

\* removed.is_some() => self.len -= 1.  A negative result stands for the
\* usize underflow (a panic in a debug build, a wrap in a release build).
len_after_remove(n, removed) == IF IsSome(removed) THEN n - 1 ELSE n

\* A slip in the slot update: the value is assigned and nothing is handed back.
replace_value_no_old(node, value) ==
    [node |-> [node EXCEPT !.value = Some(value)], old |-> None]

\* node.value.replace(value): the slot takes value, its old content is handed
\* back.
replace_value(node, value) ==
    [node |-> [node EXCEPT !.value = Some(value)], old |-> node.value]

\* A slip in the slot update: the value is copied out and the slot keeps it.
take_value_keep(node) == [node |-> node, value |-> node.value]

\* node.value.take(): the slot is emptied, its old content is handed back.
take_value(node) ==
    [node |-> [node EXCEPT !.value = None], value |-> node.value]

RECURSIVE insert_descend(_, _, _, _)
\* insert: descend along parts[i..] creating missing children, then replace
\* the value slot; hands back the rebuilt node and the slot's old content.
insert_descend(node, parts, i, value) ==
    IF i > Len(parts)
    THEN replace_value(node, value)
    ELSE LET part == parts[i]
             r == insert_descend(entry_or_default(node, part), parts, i + 1, value)
         IN  [node |-> [node EXCEPT !.children = MapPut(@, part, r.node)],
              old |-> r.old]

RECURSIVE get_descend(_, _, _)
get_descend(node, parts, i) ==
    IF i > Len(parts) THEN node.value
    ELSE IF parts[i] \in DOMAIN node.children
         THEN get_descend(node.children[parts[i]], parts, i + 1)
         ELSE None

\* get
get(node, oid) == get_descend(node, oid, 1)

\* contains
contains(node, oid) == IsSome(get(node, oid))

RECURSIVE get_mut_descend(_, _, _, _)
\* get_mut, and the caller's write through the reference it returns.
get_mut_descend(node, parts, i, value) ==
    IF i > Len(parts)
    THEN IF IsSome(node.value) THEN [node EXCEPT !.value = Some(value)] ELSE node
    ELSE IF parts[i] \in DOMAIN node.children
         THEN [node EXCEPT !.children[parts[i]] =
                               get_mut_descend(@, parts, i + 1, value)]
         ELSE node

\* A slip in the prune condition: is_some for is_none.
is_dead_slip(child) == IsSome(child.value) /\ DOMAIN child.children = {}

\* A slip in the pruning test: a childless node counts as dead, value or not.
is_dead_childless(child) == DOMAIN child.children = {}

\* child.value.is_none() && child.children.is_empty()
is_dead(child) == child.value = None /\ DOMAIN child.children = {}

RECURSIVE remove_recursive(_, _, _)
\* depth counts from 0 as in the code; parts[depth] there is parts[depth + 1]
\* here.
remove_recursive(node, parts, depth) ==
    IF depth = Len(parts)
    THEN take_value(node)
    ELSE LET part == parts[depth + 1]
         IN  IF part \in DOMAIN node.children
             THEN LET r == remove_recursive(node.children[part], parts, depth + 1)
                  IN  [node |-> IF is_dead(r.node)
                                THEN [node EXCEPT !.children = MapRemove(@, part)]
                                ELSE [node EXCEPT !.children[part] = r.node],
                       value |-> r.value]
             ELSE [node |-> node, value |-> None]

RECURSIVE longest_prefix_loop(_, _, _, _, _)
\* The for loop of longest_prefix over parts[i..]; last_match is
\* Option<(depth, value)>.
longest_prefix_loop(node, parts, i, last_match, matched_depth) ==
    IF i > Len(parts)
    THEN [node |-> node, last_match |-> last_match, matched_depth |-> matched_depth]
    ELSE LET lm == IF IsSome(node.value)
                   THEN Some(<<matched_depth, Unwrap(node.value)>>)
                   ELSE last_match
         IN  IF parts[i] \in DOMAIN node.children
             THEN longest_prefix_loop(node.children[parts[i]], parts, i + 1,
                                      lm, matched_depth + 1)
             ELSE [node |-> node, last_match |-> lm, matched_depth |-> matched_depth]

\* A slip in longest_prefix: the check of the final node is left out.
longest_prefix_no_final(node, oid) ==
    LET s == longest_prefix_loop(node, oid, 1, None, 0)
        last == s.last_match
    IN  IF last = None THEN None
        ELSE Some(<<SubSeq(oid, 1, Unwrap(last)[1]), Unwrap(last)[2]>>)

\* longest_prefix, up to the parts handed to Oid::new: Option<(parts, value)>.
longest_prefix(node, oid) ==
    LET s == longest_prefix_loop(node, oid, 1, None, 0)
        last == IF IsSome(s.node.value)
                THEN Some(<<s.matched_depth, Unwrap(s.node.value)>>)
                ELSE s.last_match
    IN  IF last = None THEN None
        ELSE Some(<<SubSeq(oid, 1, Unwrap(last)[1]), Unwrap(last)[2]>>)

\* A slip in the range: (target_part + 1..), which leaves out the child on the
\* target's own path.
children_range_exclusive(node, target_part) ==
    {k \in DOMAIN node.children : k > target_part}

\* node.children.range(target_part..): the keys >= target_part
children_range(node, target_part) == {k \in DOMAIN node.children : k >= target_part}

RECURSIVE first_in_subtree(_, _)
RECURSIVE first_in_children(_, _, _)
RECURSIVE find_next(_, _, _, _)
RECURSIVE find_next_range(_, _, _, _, _)

\* for (&part, child) in &node.children { push; first_in_subtree; pop }, over
\* the keys not yet visited, in ascending order.
first_in_children(node, path, keys) ==
    IF keys = {} THEN None
    ELSE LET part == Min(keys)
             result == first_in_subtree(node.children[part], Append(path, part))
         IN  IF IsSome(result) THEN result
             ELSE first_in_children(node, path, keys \ {part})

first_in_subtree(node, path) ==
    IF IsSome(node.value) THEN Some(<<path, Unwrap(node.value)>>)
    ELSE first_in_children(node, path, DOMAIN node.children)

\* A slip in find_next's loop: it returns what the first child in the range
\* gave, without going on to the later children when that is None.
find_next_range_first(node, path, target, depth, keys) ==
    IF keys = {} THEN None
    ELSE LET part == Min(keys)
             child == node.children[part]
         IN  IF part = target[depth + 1]
             THEN find_next(child, Append(path, part), target, depth + 1)
             ELSE first_in_subtree(child, Append(path, part))

\* The loop of find_next's first branch, over the keys of range(target_part..)
\* not yet visited.
find_next_range(node, path, target, depth, keys) ==
    IF keys = {} THEN None
    ELSE LET part == Min(keys)
             child == node.children[part]
             result == IF part = target[depth + 1]
                       THEN find_next(child, Append(path, part), target, depth + 1)
                       ELSE first_in_subtree(child, Append(path, part))
         IN  IF IsSome(result) THEN result
             ELSE find_next_range(node, path, target, depth, keys \ {part})

\* A slip in find_next: at the target's own node the node's value counts too.
find_next_self(node, path, target, depth) ==
    IF depth < Len(target)
    THEN find_next_range(node, path, target, depth,
                         children_range(node, target[depth + 1]))
    ELSE first_in_subtree(node, path)

find_next(node, path, target, depth) ==
    IF depth < Len(target)
    THEN find_next_range(node, path, target, depth,
                         children_range(node, target[depth + 1]))
    ELSE IF depth = Len(target)
         THEN first_in_children(node, path, DOMAIN node.children)
         ELSE IF IsSome(node.value) THEN Some(<<path, Unwrap(node.value)>>)
              ELSE first_in_children(node, path, DOMAIN node.children)

\* get_next, up to the parts handed to Oid::new: Option<(parts, value)>.
get_next(node, oid) == find_next(node, <<>>, oid, 0)

\* Oid::new(parts).unwrap() on the result of longest_prefix, get_next and
\* TrieIter::next panics when parts is empty.
unwrap_panics(r) == IsSome(r) /\ Oid_new(Unwrap(r)[1]) = None

(***************************************************************************)
(* TrieIter                                                                *)
(***************************************************************************)
\* One stack entry: the node and its children iterator (the keys not yet
\* yielded; btree_map::Iter yields them in ascending order).
StackEntry(node) == [node |-> node, rest |-> DOMAIN node.children]

\* TrieIter::new
TrieIter_new(node) ==
    [stack |-> <<StackEntry(node)>>, path |-> <<>>, pending |-> node.value]

\* Vec::pop: nothing happens on an empty vector.
VecPop(s) == IF Len(s) = 0 THEN s ELSE SubSeq(s, 1, Len(s) - 1)

\* A slip in the order: the children iterator run from the back.
iter_next_key_rev(rest) == CHOOSE x \in rest : \A y \in rest : y <= x

\* children_iter.next(): the smallest key not yet yielded
iter_next_key(rest) == Min(rest)

RECURSIVE TrieIter_loop(_)
\* The while loop of TrieIter::next: [it |-> the iterator after, item |-> what
\* next returns].
TrieIter_loop(it) ==
    IF Len(it.stack) = 0 THEN [it |-> it, item |-> None]
    ELSE LET top == it.stack[Len(it.stack)]
         IN  IF top.rest # {}
             THEN LET part == iter_next_key(top.rest)
                      child == top.node.children[part]
                      it1 == [stack |-> Append([it.stack EXCEPT ![Len(it.stack)].rest
                                                            = @ \ {part}],
                                               StackEntry(child)),
                              path |-> Append(it.path, part),
                              pending |-> it.pending]
                  IN  IF IsSome(child.value)
                      THEN [it |-> it1, item |-> Some(<<it1.path, Unwrap(child.value)>>)]
                      ELSE TrieIter_loop(it1)
             ELSE TrieIter_loop([stack |-> VecPop(it.stack),
                                 path |-> VecPop(it.path),
                                 pending |-> it.pending])

\* TrieIter::next
TrieIter_next(it) ==
    IF IsSome(it.pending)
    THEN [it |-> [it EXCEPT !.pending = None],
          item |-> Some(<<it.path, Unwrap(it.pending)>>)]
    ELSE TrieIter_loop(it)

(***************************************************************************)
(* State machine                                                           *)
(***************************************************************************)
NoIter == [stack |-> <<>>, path |-> <<>>, pending |-> None]

\* OidTrie::new
Init ==
    /\ root = TrieNode_default
    /\ len = 0
    /\ op = "idle"
    /\ arg = <<>>
    /\ val = None
    /\ ret = None
    /\ panicked = FALSE
    /\ iter = NoIter
    /\ out = <<>>

Idle == op = "idle" /\ ~panicked

Insert(oid, value) ==
    /\ Idle
    /\ len < MaxEntries \/ contains(root, oid)
    /\ LET r == insert_descend(root, oid, 1, value)
       IN  /\ root' = r.node
           /\ len' = len_after_insert(len, r.old)
           /\ ret' = r.old
    /\ op' = "insert" /\ arg' = oid /\ val' = Some(value)
    /\ UNCHANGED <<panicked, iter, out>>

Get(oid) ==
    /\ Idle
    /\ ret' = get(root, oid)
    /\ op' = "get" /\ arg' = oid
    /\ UNCHANGED <<root, len, val, panicked, iter, out>>

GetMut(oid, value) ==
    /\ Idle
    /\ root' = get_mut_descend(root, oid, 1, value)
    /\ ret' = get(root, oid)
    /\ op' = "get_mut" /\ arg' = oid /\ val' = Some(value)
    /\ UNCHANGED <<len, panicked, iter, out>>

Contains(oid) ==
    /\ Idle
    /\ ret' = contains(root, oid)
    /\ op' = "contains" /\ arg' = oid
    /\ UNCHANGED <<root, len, val, panicked, iter, out>>

Remove(oid) ==
    /\ Idle
    /\ LET r == remove_recursive(root, oid, 0)
       IN  /\ root' = r.node
           /\ len' = len_after_remove(len, r.value)
           /\ ret' = r.value
    /\ op' = "remove" /\ arg' = oid
    /\ UNCHANGED <<val, panicked, iter, out>>

\* A slip in clear: the counter is zeroed and the nodes are kept.
Clear_len_only ==
    /\ Idle
    /\ root' = root
    /\ len' = 0
    /\ op' = "clear"
    /\ UNCHANGED <<arg, val, ret, panicked, iter, out>>

Clear ==
    /\ Idle
    /\ root' = TrieNode_default
    /\ len' = 0
    /\ op' = "clear"
    /\ UNCHANGED <<arg, val, ret, panicked, iter, out>>

Length ==
    /\ Idle
    /\ ret' = len
    /\ op' = "len"
    /\ UNCHANGED <<root, len, arg, val, panicked, iter, out>>

IsEmpty ==
    /\ Idle
    /\ ret' = (len = 0)
    /\ op' = "is_empty"
    /\ UNCHANGED <<root, len, arg, val, panicked, iter, out>>

LongestPrefix(oid) ==
    /\ Idle
    /\ LET r == longest_prefix(root, oid)
       IN  ret' = r /\ panicked' = unwrap_panics(r)
    /\ op' = "longest_prefix" /\ arg' = oid
    /\ UNCHANGED <<root, len, val, iter, out>>

GetNext(oid) ==
    /\ Idle
    /\ LET r == get_next(root, oid)
       IN  ret' = r /\ panicked' = unwrap_panics(r)
    /\ op' = "get_next" /\ arg' = oid
    /\ UNCHANGED <<root, len, val, iter, out>>

\* iter(): the iterator borrows the trie until it is released.
Iter ==
    /\ Idle
    /\ iter' = TrieIter_new(root)
    /\ op' = "iter"
    /\ UNCHANGED <<root, len, arg, val, ret, panicked, out>>

\* One call of next() on the live iterator; out collects what it has emitted.
IterNext ==
    /\ op \in {"iter", "iter_next"} /\ ~panicked
    /\ LET r == TrieIter_next(iter)
       IN  /\ iter' = r.it
           /\ ret' = r.item
           /\ panicked' = unwrap_panics(r.item)
           /\ out' = IF IsSome(r.item) THEN Append(out, Unwrap(r.item)) ELSE out
    /\ op' = "iter_next"
    /\ UNCHANGED <<root, len, arg, val>>

\* A GETNEXT walk (of SpecWalk): get_next from arg, then from each OID it returns.
WalkStart(oid) ==
    /\ Idle
    /\ op' = "walk" /\ arg' = oid
    /\ UNCHANGED <<root, len, val, ret, panicked, iter, out>>

WalkStep ==
    /\ op \in {"walk", "walk_next"} /\ ~panicked
    /\ op = "walk_next" => IsSome(ret)
    /\ Len(out) <= MaxEntries
    /\ LET from == IF op = "walk" THEN arg ELSE Unwrap(ret)[1]
           r == get_next(root, from)
       IN  /\ ret' = r
           /\ panicked' = unwrap_panics(r)
           /\ out' = IF IsSome(r) THEN Append(out, Unwrap(r)) ELSE out
    /\ op' = "walk_next"
    /\ UNCHANGED <<root, len, arg, val, iter>>

\* The caller lets go of the result (and of the borrow it holds).
Release ==
    /\ op # "idle" /\ ~panicked
    /\ op' = "idle" /\ arg' = <<>> /\ val' = None /\ ret' = None
    /\ iter' = NoIter /\ out' = <<>>
    /\ UNCHANGED <<root, len, panicked>>

Next ==
    \/ \E oid \in KeyOids, value \in Values : Insert(oid, value)
    \/ \E oid \in QueryOids : Get(oid)
    \/ \E oid \in QueryOids, value \in Values : GetMut(oid, value)
    \/ \E oid \in QueryOids : Contains(oid)
    \/ \E oid \in QueryOids : Remove(oid)
    \/ Clear
    \/ Length
    \/ IsEmpty
    \/ \E oid \in QueryOids : LongestPrefix(oid)
    \/ \E oid \in QueryOids : GetNext(oid)
    \/ Iter
    \/ IterNext
    \/ Release

Spec == Init /\ [][Next]_vars

\* The trie's mutators and a GETNEXT walk over it.
NextWalk ==
    \/ \E oid \in KeyOids, value \in Values : Insert(oid, value)
    \/ \E oid \in QueryOids : Remove(oid)
    \/ Clear
    \/ \E oid \in QueryOids : WalkStart(oid)
    \/ WalkStep
    \/ Release

SpecWalk == Init /\ [][NextWalk]_vars

(***************************************************************************)
(* What the trie holds, read off the node structure.                       *)
(***************************************************************************)
RECURSIVE Entries(_, _)
\* The (OID, value) pairs under node, path being the way to node.
Entries(node, path) ==
    (IF IsSome(node.value) THEN {<<path, Unwrap(node.value)>>} ELSE {})
    \cup UNION {Entries(node.children[k], Append(path, k)) : k \in DOMAIN node.children}

RECURSIVE ValueCount(_)
\* The number of nodes under (and including) node that hold a value.
ValueCount(node) ==
    LET kids == DOMAIN node.children
        RECURSIVE Sum(_)
        Sum(S) == IF S = {} THEN 0
                  ELSE LET k == CHOOSE x \in S : TRUE
                       IN  ValueCount(node.children[k]) + Sum(S \ {k})
    IN  (IF IsSome(node.value) THEN 1 ELSE 0) + Sum(kids)

RECURSIVE NodePaths(_, _)
\* The paths of all nodes under (and including) node.
NodePaths(node, path) ==
    {path} \cup UNION {NodePaths(node.children[k], Append(path, k)) : k \in DOMAIN node.children}

RECURSIVE NodeAt(_, _, _)
\* The node at parts[i..] below node (the path is known to exist).
NodeAt(node, parts, i) ==
    IF i > Len(parts) THEN node ELSE NodeAt(node.children[parts[i]], parts, i + 1)

Stored == Entries(root, <<>>)
Keys == {e[1] : e \in Stored}
\* The value stored at oid in a set of entries, as an Option.
Lookup(entries, oid) ==
    IF \E e \in entries : e[1] = oid
    THEN Some((CHOOSE e \in entries : e[1] = oid)[2])
    ELSE None

\* A sequence of entries in strictly ascending OID order.
Ascending(s) == \A i \in 1..(Len(s) - 1) : OidLess(s[i][1], s[i + 1][1])
SeqSet(s) == {s[i] : i \in 1..Len(s)}

(***************************************************************************)
(* Claims                                                                  *)
(***************************************************************************)
\* The entries whose OID is greater than q, and the least entry of a set.
After(entries, q) == {e \in entries : OidLess(q, e[1])}
LeastEntry(G) == CHOOSE e \in G : \A f \in G : f = e \/ OidLess(e[1], f[1])

\* C1: get_next(q) returns the least stored OID greater than q with the value
\* stored there, and None exactly when no stored OID is greater than q; it
\* never returns q itself.
C1_GetNextIsSuccessor ==
    op = "get_next" =>
        LET G == After(Stored, arg)
        IN  /\ G = {} => ret = None
            /\ G # {} => ret = Some(LeastEntry(G))
            /\ IsSome(ret) => Unwrap(ret)[1] # arg

\* C1 witness: a query longer than every stored key, running off the trie
\* below a stored key, answered by a later sibling subtree.
C1_Witness ==
    /\ op = "get_next" /\ IsSome(ret)
    /\ \A k \in Keys : Len(k) < Len(arg)
    /\ \E k \in Keys : starts_with(arg, k)

\* C2: iter() emits each stored (OID, value) pair exactly once, in strictly
\* ascending OID order: a node's value before the values of its subtree, a
\* subtree's values before those under a later sibling.
C2_IterAscendingOnce ==
    op \in {"iter", "iter_next"} =>
        /\ Ascending(out)
        /\ SeqSet(out) \subseteq Stored
        /\ \A i, j \in 1..Len(out) :
               (i < j) => ~starts_with(out[i][1], out[j][1])
        /\ (op = "iter_next" /\ ret = None) =>
               /\ SeqSet(out) = Stored
               /\ Len(out) = Cardinality(Stored)

\* C2 witness: an exhausted iterator that emitted a value of a subtree and
\* then the value of a later sibling of that subtree's root.
C2_Witness ==
    /\ op = "iter_next" /\ ret = None
    /\ Len(out) = 2
    /\ Len(out[1][1]) = 2 /\ Len(out[2][1]) = 1
    /\ out[1][1][1] < out[2][1][1]

\* C3: len() is the number of nodes holding a value, which is what iter()
\* counts; is_empty() is true exactly when that number is 0.
C3_LenCountsValues ==
    /\ len = ValueCount(root)
    /\ op = "len" => ret = ValueCount(root)
    /\ op = "is_empty" => ret = (ValueCount(root) = 0)
    /\ (op = "iter_next" /\ ret = None) => Len(out) = len

\* C3 witness: an existing key was inserted again into a full trie.
C3_Witness ==
    /\ op = "insert" /\ IsSome(ret)
    /\ len = MaxEntries

\* C4: right after insert(o, v), get(o) is Some(v) and contains(o) is true.
C4_InsertThenGet ==
    op = "insert" => get(root, arg) = val /\ contains(root, arg)

\* C4 witness: the inserted OID is a strict prefix of another stored key.
C4_Witness ==
    /\ op = "insert"
    /\ \E k \in Keys : k # arg /\ starts_with(k, arg)

\* C5: insert(o, v) returns the value stored at o before the call (None if
\* there was none, also when o's node was there as an interior node); len
\* grows by exactly 1 when it returns None and stays when it returns Some.
C5_InsertReturnsOld ==
    [][op' = "insert" =>
          /\ ret' = Lookup(Stored, arg')
          /\ ret' = None => len' = len + 1
          /\ IsSome(ret') => len' = len]_vars

\* C5 witness: an insert that returned None at an OID whose node was already
\* there as an interior node (it still has a stored key below it).
C5_Witness ==
    /\ op = "insert" /\ ret = None
    /\ \E k \in Keys : k # arg /\ starts_with(k, arg)

\* C6 as stated: after remove(o), for every o (stored or not), get(o) is None
\* and len is exactly one less than before.
C6_RemoveAlwaysDecrements ==
    [][op' = "remove" => get(root', arg') = None /\ len' = len - 1]_vars

\* C6, amended: after remove(o), get(o) is None; len is one less than before
\* when o held a value and unchanged when it did not.
C6_RemoveThenGet ==
    [][op' = "remove" =>
          /\ get(root', arg') = None
          /\ len' = IF IsSome(Lookup(Stored, arg')) THEN len - 1 ELSE len]_vars

\* C6 witness: a remove of an OID that held no value, on a trie that holds
\* some.
C6_Witness ==
    /\ op = "remove" /\ ret = None
    /\ len > 0

\* C7: remove(o) returns Some(v) exactly when o held v before the call, None
\* otherwise; len drops by 1 iff it returns Some, and never goes below 0.
C7_RemoveReturnsStored ==
    [][op' = "remove" =>
          /\ ret' = Lookup(Stored, arg')
          /\ (len' = len - 1) <=> IsSome(ret')
          /\ (len' = len) <=> (ret' = None)
          /\ len' >= 0]_vars

\* C7 witness: a remove of a value-less interior node returned None.
C7_Witness ==
    /\ op = "remove" /\ ret = None
    /\ \E k \in Keys : k # arg /\ starts_with(k, arg)

\* C8: every node other than the root holds a value or has a child.
C8_PruningInvariant ==
    \A p \in NodePaths(root, <<>>) \ {<<>>} :
        LET n == NodeAt(root, p, 1)
        IN  IsSome(n.value) \/ DOMAIN n.children # {}

\* C8 witness: the only value of the trie, at the end of a path of several
\* nodes, was removed and the whole path went with it.
C8_Witness ==
    /\ op = "remove" /\ IsSome(ret)
    /\ Len(arg) >= 2
    /\ root = TrieNode_default

\* C9: longest_prefix(x) returns the longest stored key that x starts with,
\* with the value stored there, and None exactly when x starts with no stored
\* key.
C9_LongestPrefix ==
    op = "longest_prefix" =>
        LET P == {e \in Stored : starts_with(arg, e[1])}
        IN  /\ P = {} => ret = None
            /\ P # {} =>
                   ret = Some(CHOOSE e \in P : \A f \in P : Len(f[1]) <= Len(e[1]))

\* C9 witness: the answer is a strict prefix of x while a longer stored key
\* that x does not start with sits below the answer.
C9_Witness ==
    /\ op = "longest_prefix" /\ IsSome(ret)
    /\ Len(Unwrap(ret)[1]) < Len(arg)
    /\ \E k \in Keys : /\ Len(k) > Len(Unwrap(ret)[1])
                       /\ starts_with(k, Unwrap(ret)[1])
                       /\ ~starts_with(arg, k)

RECURSIVE IterCollect(_, _)
\* Everything an iterator emits from here on, appended to acc.
IterCollect(it, acc) ==
    LET r == TrieIter_next(it)
    IN  IF r.item = None THEN acc
        ELSE IterCollect(r.it, Append(acc, Unwrap(r.item)))

\* C10: a walk by repeated get_next from q emits a strictly ascending
\* sequence, the stored entries greater than q in the order iter() emits
\* them with none skipped or repeated, and gets None after at most len
\* successful steps (until then the walk's next step is never held back by
\* the model's cap on out).
C10_WalkVisitsAll ==
    op \in {"walk", "walk_next"} =>
        LET expect == SelectSeq(IterCollect(TrieIter_new(root), <<>>),
                                LAMBDA e : OidLess(arg, e[1]))
        IN  /\ Len(out) <= len
            /\ Ascending(out)
            /\ Len(out) <= Len(expect)
            /\ \A i \in 1..Len(out) : out[i] = expect[i]
            /\ (op = "walk_next" /\ IsSome(ret)) => Unwrap(ret) = out[Len(out)]
            /\ (op = "walk_next" /\ ret = None) => out = expect
            /\ (op = "walk" \/ IsSome(ret)) => Len(out) <= MaxEntries

\* C10 witness: a finished walk that visited two keys, the first of them
\* below the starting OID.
C10_Witness ==
    /\ op = "walk_next" /\ ret = None
    /\ Len(out) >= 2
    /\ starts_with(out[1][1], arg)

\* C11: after clear(), len is 0, is_empty holds, get, contains,
\* longest_prefix and get_next find nothing for any OID, iter() emits nothing,
\* and an insert does what it does on a trie fresh from new().
C11_ClearEmpties ==
    op = "clear" =>
        /\ len = 0
        /\ \A q \in QueryOids :
               /\ get(root, q) = None
               /\ ~contains(root, q)
               /\ longest_prefix(root, q) = None
               /\ get_next(root, q) = None
        /\ IterCollect(TrieIter_new(root), <<>>) = <<>>
        /\ \A o \in KeyOids, v \in Values :
               LET r == insert_descend(root, o, 1, v)
                   fresh == insert_descend(TrieNode_default, o, 1, v)
               IN  /\ r = fresh
                   /\ len_after_insert(len, r.old) = len_after_insert(0, fresh.old)

\* C11 witness: clear() has run and left the bare root.
C11_Witness ==
    /\ op = "clear"
    /\ root = TrieNode_default /\ len = 0

\* C12: the root's value slot is always empty, so longest_prefix, get_next
\* and iter never hand an empty sequence to Oid::new, and no call panics.
C12_RootSlotEmpty ==
    /\ root.value = None
    /\ ~panicked
    /\ len >= 0
    /\ (op \in {"longest_prefix", "get_next", "iter_next"} /\ IsSome(ret)) =>
           Len(Unwrap(ret)[1]) >= 1

\* C12 witness: longest_prefix matched at the first level below the root for
\* a longer query.
C12_Witness ==
    /\ op = "longest_prefix" /\ IsSome(ret)
    /\ Len(Unwrap(ret)[1]) = 1
    /\ Len(arg) > 1

(***************************************************************************)
(* The AgentX codec: the encode_x_pdu and decode_x functions of            *)
(* agentx/bindings.rs.  The header, body and varbind codecs they call      *)
(* (agentx/header.rs, bodies.rs, pdu.rs) are not part of src/; those are   *)
(* written from the wire layouts of the specification.  Bytes are numbers  *)
(* in 0..255 and a buffer is a sequence of bytes.                          *)
(***************************************************************************)
MaxVarBinds == 3

RECURSIVE ListsUpTo(_, _)
\* The sequences of at most n members of S.
ListsUpTo(S, n) ==
    IF n = 0 THEN {<<>>}
    ELSE LET shorter == ListsUpTo(S, n - 1)
         IN  shorter \cup {Append(s, x) : s \in {t \in shorter : Len(t) = n - 1}, x \in S}

RECURSIVE Flatten(_)
\* The concatenation of a sequence of buffers.
Flatten(bufs) == IF bufs = <<>> THEN <<>> ELSE Head(bufs) \o Flatten(Tail(bufs))

Zeros(n) == [i \in 1..n |-> 0]

\* Big-endian integers, as the encoders always write them.  The top byte is
\* taken modulo 256: a number is cut to the width of its field.
U16BE(n) == <<(n \div 256) % 256, n % 256>>
U32BE(n) == <<(n \div 16777216) % 256, (n \div 65536) % 256, (n \div 256) % 256, n % 256>>
\* A 64-bit field for a number that fits in its low word.
U64BE(n) == Zeros(4) \o U32BE(n)

\* The integer at bytes pos+1.. of data (pos is a cursor position, from 0).
U16At(data, pos) == data[pos + 1] * 256 + data[pos + 2]
U32At(data, pos) ==
    data[pos + 1] * 16777216 + data[pos + 2] * 65536 + data[pos + 3] * 256 + data[pos + 4]

\* Result<T, E>
Ok(x) == [ok |-> x]
Err(kind) == [err |-> kind]
IsOk(r) == "ok" \in DOMAIN r

\* Header flag bits and the header's size.
NON_DEFAULT_CONTEXT == 8
NETWORK_BYTE_ORDER == 16
HEADER_SIZE == 20

HasFlag(flags, bit) == (flags \div bit) % 2 = 1
\* flags | bit, for a single bit.
FlagsOr(flags, bit) == IF HasFlag(flags, bit) THEN flags ELSE flags + bit

\* PduTypes
PduType_Open == 1
PduType_Close == 2
PduType_Register == 3
PduType_Unregister == 4
PduType_Notify == 12
PduType_Ping == 13
PduType_Response == 18

\* Header::new: the three ids, no flag chosen yet and no payload measured.
Header_new(pdu_type, ids) ==
    [version |-> 1, pdu_type |-> pdu_type, flags |-> 0,
     session_id |-> ids[1], transaction_id |-> ids[2], packet_id |-> ids[3],
     payload_length |-> 0]

with_flags(header, flags) == [header EXCEPT !.flags = flags]

with_payload_length(header, n) == [header EXCEPT !.payload_length = n]

\* A slip in the header encoder: the flags byte is written as the caller
\* left it.
Header_encode_raw_flags(header) ==
    <<header.version, header.pdu_type, header.flags, 0>>
    \o U32BE(header.session_id) \o U32BE(header.transaction_id)
    \o U32BE(header.packet_id) \o U32BE(header.payload_length)

\* Header::encode: 20 bytes, NETWORK_BYTE_ORDER forced on.
Header_encode(header) ==
    <<header.version, header.pdu_type, FlagsOr(header.flags, NETWORK_BYTE_ORDER), 0>>
    \o U32BE(header.session_id) \o U32BE(header.transaction_id)
    \o U32BE(header.packet_id) \o U32BE(header.payload_length)

\* A slip in encode_full_pdu: the length written counts the header too.
encode_full_pdu_total(header, body) ==
    Header_encode(with_payload_length(header, HEADER_SIZE + Len(body))) \o body

\* encode_full_pdu: the header, told the body's length, then the body.
encode_full_pdu(header, body) ==
    Header_encode(with_payload_length(header, Len(body))) \o body

\* encode_octet_string: length, bytes, zero padding to a multiple of 4.
encode_octet_string(bytes) ==
    U32BE(Len(bytes)) \o bytes \o Zeros((4 - (Len(bytes) % 4)) % 4)

InternetPrefix == <<1, 3, 6, 1>>

\* An OID the wire form can shorten: 1.3.6.1.p and more, p a byte above 0.
Compressible(oid) ==
    /\ Len(oid) >= 5
    /\ SubSeq(oid, 1, 4) = InternetPrefix
    /\ oid[5] \in 1..255

\* The OID encoder: n_subid, prefix, include, reserved, then the
\* sub-identifiers.  Whether the encoder uses the prefix form is not in
\* src/: pc says whether it does.
encode_oid(oid, include, pc) ==
    IF pc /\ Compressible(oid)
    THEN <<Len(oid) - 5, oid[5], include, 0>>
         \o Flatten([i \in 1..(Len(oid) - 5) |-> U32BE(oid[i + 5])])
    ELSE <<Len(oid), 0, include, 0>> \o Flatten([i \in 1..Len(oid) |-> U32BE(oid[i])])

\* Value type codes, by the shape of their payload.
IntTypes == {2, 65, 66, 67}
StringTypes == {4, 64, 68}
EmptyTypes == {5, 128, 129, 130}
OidType == 6
Counter64Type == 70

\* A Value: its type code and the payload field its variant uses.
Value(type, int, bytes, oid) == [type |-> type, int |-> int, bytes |-> bytes, oid |-> oid]

\* The value payload of a varbind.
Value_encode(v, pc) ==
    CASE v.type \in IntTypes -> U32BE(v.int)
      [] v.type \in StringTypes -> encode_octet_string(v.bytes)
      [] v.type = OidType -> encode_oid(v.oid, 0, pc)
      [] v.type = Counter64Type -> U64BE(v.int)
      [] OTHER -> <<>>

\* VarBind::encode: type code, reserved, name, value.
VarBind_encode(vb, pc) ==
    U16BE(vb.value.type) \o <<0, 0>> \o encode_oid(vb.oid, 0, pc) \o Value_encode(vb.value, pc)

VarBinds_encode(varbinds, pc) ==
    Flatten([i \in 1..Len(varbinds) |-> VarBind_encode(varbinds[i], pc)])

\* OpenPdu::encode
OpenPdu_encode(timeout, oid, description, pc) ==
    <<timeout, 0, 0, 0>> \o encode_oid(oid, 0, pc) \o encode_octet_string(description)

\* encode_close_pdu's match on the reason byte.
CloseReason_from(reason) == IF reason \in 1..6 THEN reason ELSE 1

\* ClosePdu::encode
ClosePdu_encode(reason) == <<reason, 0, 0, 0>>

\* RegisterPdu::new: a single subtree, no range.
RegisterPdu_new(subtree, priority, timeout) ==
    [subtree |-> subtree, priority |-> priority, timeout |-> timeout,
     range_subid |-> 0, upper_bound |-> 0]

\* RegisterPdu::encode
RegisterPdu_encode(pdu, pc) ==
    <<pdu.timeout, pdu.priority, pdu.range_subid, 0>>
    \o encode_oid(pdu.subtree, 0, pc)
    \o (IF pdu.range_subid # 0 THEN U32BE(pdu.upper_bound) ELSE <<>>)

\* UnregisterPdu::new
UnregisterPdu_new(subtree, priority) ==
    [subtree |-> subtree, priority |-> priority, range_subid |-> 0, upper_bound |-> 0]

\* UnregisterPdu::encode
UnregisterPdu_encode(pdu, pc) ==
    <<0, pdu.priority, pdu.range_subid, 0>>
    \o encode_oid(pdu.subtree, 0, pc)
    \o (IF pdu.range_subid # 0 THEN U32BE(pdu.upper_bound) ELSE <<>>)

\* NotifyPdu::encode
NotifyPdu_encode(varbinds, pc) == VarBinds_encode(varbinds, pc)

\* PingPdu::encode
PingPdu_encode == <<>>

\* The error codes ResponseError has a variant for.
ResponseErrorCodes == {0} \cup 256..268

\* ResponseError::from(u16).  ResponseError is cast back with `as u16`, so
\* it is an enum without fields: a code it has no variant for becomes one of
\* its variants, and which one is not in src/: unknown says which.
ResponseError_from(error, unknown) ==
    IF error \in ResponseErrorCodes THEN error ELSE unknown

\* ResponsePdu::new
ResponsePdu_new(sys_uptime, varbinds) ==
    [sys_uptime |-> sys_uptime, error |-> 0, index |-> 0, varbinds |-> varbinds]

\* ResponsePdu::error
ResponsePdu_error(sys_uptime, error, index) ==
    [sys_uptime |-> sys_uptime, error |-> error, index |-> index, varbinds |-> <<>>]

\* ResponsePdu::encode
ResponsePdu_encode(pdu, pc) ==
    U32BE(pdu.sys_uptime) \o U16BE(pdu.error) \o U16BE(pdu.index)
    \o VarBinds_encode(pdu.varbinds, pc)

\* The context written ahead of the body, when one is given.
context_prefix(context) ==
    IF IsSome(context) THEN encode_octet_string(Unwrap(context)) ELSE <<>>

\* A slip in the flags: an empty context is taken for no context.
context_flags_nonempty(context) ==
    IF IsSome(context) /\ Unwrap(context) # <<>>
    THEN FlagsOr(NETWORK_BYTE_ORDER, NON_DEFAULT_CONTEXT)
    ELSE NETWORK_BYTE_ORDER

\* The flags of a PDU that may carry a context.
context_flags(context) ==
    IF IsSome(context)
    THEN FlagsOr(NETWORK_BYTE_ORDER, NON_DEFAULT_CONTEXT)
    ELSE NETWORK_BYTE_ORDER

encode_open_pdu(ids, timeout, oid, description, pc) ==
    encode_full_pdu(Header_new(PduType_Open, ids),
                    OpenPdu_encode(timeout, oid, description, pc))

encode_close_pdu(ids, reason) ==
    encode_full_pdu(Header_new(PduType_Close, ids),
                    ClosePdu_encode(CloseReason_from(reason)))

encode_register_pdu(ids, subtree, priority, timeout, context, pc) ==
    encode_full_pdu(with_flags(Header_new(PduType_Register, ids), context_flags(context)),
                    context_prefix(context)
                    \o RegisterPdu_encode(RegisterPdu_new(subtree, priority, timeout), pc))

encode_unregister_pdu(ids, subtree, priority, context, pc) ==
    encode_full_pdu(with_flags(Header_new(PduType_Unregister, ids), context_flags(context)),
                    context_prefix(context)
                    \o UnregisterPdu_encode(UnregisterPdu_new(subtree, priority), pc))

encode_response_pdu(ids, sys_uptime, error, index, varbinds, pc, unknown) ==
    LET pdu == IF error # 0
               THEN ResponsePdu_error(sys_uptime, ResponseError_from(error, unknown), index)
               ELSE ResponsePdu_new(sys_uptime, varbinds)
    IN  encode_full_pdu(Header_new(PduType_Response, ids), ResponsePdu_encode(pdu, pc))

encode_notify_pdu(ids, varbinds, context, pc) ==
    encode_full_pdu(with_flags(Header_new(PduType_Notify, ids), context_flags(context)),
                    context_prefix(context) \o NotifyPdu_encode(varbinds, pc))

encode_ping_pdu(ids) ==
    encode_full_pdu(Header_new(PduType_Ping, ids), PingPdu_encode)

(***************************************************************************)
(* The arguments the codec is called with.                                 *)
(***************************************************************************)
\* (session_id, transaction_id, packet_id)
HeaderIds == {<<258, 2, 70000>>}
WireOids == {<<1>>, <<1, 3, 6, 1, 2, 1>>}
\* "", "test", "hello"
Descriptions == {<<>>, <<116, 101, 115, 116>>, <<104, 101, 108, 108, 111>>}
\* no context, "", "c", "ctx15"
Contexts == {None, Some(<<>>), Some(<<99>>), Some(<<99, 116, 120, 49, 53>>)}
Timeouts == {0, 5}
Priorities == {127}
Reasons == {0, 1, 5, 6, 7}
\* 1 = Null, 1 = an OctetString of 8 bytes, 1.3.6.1.2.1 = Integer(7)
VarBinds ==
    {[oid |-> <<1>>, value |-> Value(5, 0, <<>>, <<>>)],
     [oid |-> <<1>>, value |-> Value(4, 0, <<1, 2, 3, 4, 5, 6, 7, 8>>, <<>>)],
     [oid |-> <<1, 3, 6, 1, 2, 1>>, value |-> Value(2, 7, <<>>, <<>>)]}
VarBindLists == ListsUpTo(VarBinds, MaxVarBinds)
\* NoError, DuplicateRegistration, and a code ResponseError has no variant for
Errors == {0, 263, 5}
Indexes == {0, 1}
Uptimes == {4660}

EncodeOpenPdu(ids, timeout, oid, description, pc) ==
    /\ Idle
    /\ op' = "encode_open_pdu"
    /\ arg' = [ids |-> ids, timeout |-> timeout, oid |-> oid,
               description |-> description, pc |-> pc]
    /\ ret' = encode_open_pdu(ids, timeout, oid, description, pc)
    /\ UNCHANGED <<root, len, val, panicked, iter, out>>

EncodeClosePdu(ids, reason) ==
    /\ Idle
    /\ op' = "encode_close_pdu"
    /\ arg' = [ids |-> ids, reason |-> reason]
    /\ ret' = encode_close_pdu(ids, reason)
    /\ UNCHANGED <<root, len, val, panicked, iter, out>>

EncodeRegisterPdu(ids, subtree, priority, timeout, context, pc) ==
    /\ Idle
    /\ op' = "encode_register_pdu"
    /\ arg' = [ids |-> ids, subtree |-> subtree, priority |-> priority,
               timeout |-> timeout, context |-> context, pc |-> pc]
    /\ ret' = encode_register_pdu(ids, subtree, priority, timeout, context, pc)
    /\ UNCHANGED <<root, len, val, panicked, iter, out>>

EncodeUnregisterPdu(ids, subtree, priority, context, pc) ==
    /\ Idle
    /\ op' = "encode_unregister_pdu"
    /\ arg' = [ids |-> ids, subtree |-> subtree, priority |-> priority,
               context |-> context, pc |-> pc]
    /\ ret' = encode_unregister_pdu(ids, subtree, priority, context, pc)
    /\ UNCHANGED <<root, len, val, panicked, iter, out>>

EncodeResponsePdu(ids, sys_uptime, error, index, varbinds, pc, unknown) ==
    /\ Idle
    /\ op' = "encode_response_pdu"
    /\ arg' = [ids |-> ids, sys_uptime |-> sys_uptime, error |-> error, index |-> index,
               varbinds |-> varbinds, pc |-> pc, unknown |-> unknown]
    /\ ret' = encode_response_pdu(ids, sys_uptime, error, index, varbinds, pc, unknown)
    /\ UNCHANGED <<root, len, val, panicked, iter, out>>

EncodeNotifyPdu(ids, varbinds, context, pc) ==
    /\ Idle
    /\ op' = "encode_notify_pdu"
    /\ arg' = [ids |-> ids, varbinds |-> varbinds, context |-> context, pc |-> pc]
    /\ ret' = encode_notify_pdu(ids, varbinds, context, pc)
    /\ UNCHANGED <<root, len, val, panicked, iter, out>>

EncodePingPdu(ids) ==
    /\ Idle
    /\ op' = "encode_ping_pdu"
    /\ arg' = [ids |-> ids]
    /\ ret' = encode_ping_pdu(ids)
    /\ UNCHANGED <<root, len, val, panicked, iter, out>>

(***************************************************************************)
(* Decoding.  A decoder reads data from a cursor position pos (bytes read   *)
(* so far) and gives Ok of what it read and the new position, or Err.      *)
(***************************************************************************)
\* The PDU types a header may carry.
PduTypeCodes == (1..13) \cup {18}

\* Header::decode
Header_decode(data) ==
    IF Len(data) < HEADER_SIZE THEN Err("ShortRead")
    ELSE IF data[1] # 1 THEN Err("UnsupportedVersion")
    ELSE IF data[2] \notin PduTypeCodes THEN Err("Malformed")
    ELSE Ok([pdu_type |-> data[2], flags |-> data[3],
             session_id |-> U32At(data, 4), transaction_id |-> U32At(data, 8),
             packet_id |-> U32At(data, 12), payload_length |-> U32At(data, 16)])

\* decode_header: an AgentXHeader, or the error.
decode_header(data) ==
    IF Len(data) < HEADER_SIZE THEN Err("ValueError") ELSE Header_decode(data)

\* The OID decoder.
decode_oid(data, pos) ==
    IF pos + 4 > Len(data) THEN Err("ShortRead")
    ELSE LET n_subid == data[pos + 1]
             prefix == data[pos + 2]
             total == IF prefix # 0 THEN n_subid + 5 ELSE n_subid
         IN  IF n_subid > 128 \/ total > 128 THEN Err("Malformed")
             ELSE IF pos + 4 + 4 * n_subid > Len(data) THEN Err("Malformed")
             ELSE Ok([oid |-> (IF prefix # 0 THEN Append(InternetPrefix, prefix) ELSE <<>>)
                              \o [i \in 1..n_subid |-> U32At(data, pos + 4 * i)],
                      include |-> data[pos + 3],
                      pos |-> pos + 4 + 4 * n_subid])

\* The octet string decoder.
decode_octet_string(data, pos) ==
    IF pos + 4 > Len(data) THEN Err("ShortRead")
    ELSE LET n == U32At(data, pos)
             padded == n + ((4 - (n % 4)) % 4)
         IN  IF pos + 4 + padded > Len(data) THEN Err("Malformed")
             ELSE Ok([bytes |-> SubSeq(data, pos + 5, pos + 4 + n),
                      pos |-> pos + 4 + padded])

\* The value payload of a varbind of the given type code.
Value_decode(type, data, pos) ==
    CASE type \in IntTypes ->
             IF pos + 4 > Len(data) THEN Err("ShortRead")
             ELSE Ok([value |-> Value(type, U32At(data, pos), <<>>, <<>>), pos |-> pos + 4])
      [] type \in StringTypes ->
             LET s == decode_octet_string(data, pos)
             IN  IF IsOk(s)
                 THEN Ok([value |-> Value(type, 0, s.ok.bytes, <<>>), pos |-> s.ok.pos])
                 ELSE s
      [] type = OidType ->
             LET o == decode_oid(data, pos)
             IN  IF IsOk(o)
                 THEN Ok([value |-> Value(type, 0, <<>>, o.ok.oid), pos |-> o.ok.pos])
                 ELSE o
      [] type = Counter64Type ->
             IF pos + 8 > Len(data) THEN Err("ShortRead")
             ELSE Ok([value |-> Value(type, U32At(data, pos + 4), <<>>, <<>>), pos |-> pos + 8])
      [] type \in EmptyTypes -> Ok([value |-> Value(type, 0, <<>>, <<>>), pos |-> pos])
      [] OTHER -> Err("Malformed")

\* VarBind::decode
VarBind_decode(data, pos) ==
    IF pos + 4 > Len(data) THEN Err("ShortRead")
    ELSE LET name == decode_oid(data, pos + 4)
         IN  IF ~IsOk(name) THEN name
             ELSE LET v == Value_decode(U16At(data, pos), data, name.ok.pos)
                  IN  IF ~IsOk(v) THEN v
                      ELSE Ok([vb |-> [oid |-> name.ok.oid, value |-> v.ok.value],
                               pos |-> v.ok.pos])

\* ResponsePdu::decode: the 8 fixed bytes; the varbinds are left to the caller.
ResponsePdu_decode(data, pos, unknown) ==
    IF pos + 8 > Len(data) THEN Err("ShortRead")
    ELSE Ok([pdu |-> [sys_uptime |-> U32At(data, pos),
                      error |-> ResponseError_from(U16At(data, pos + 4), unknown),
                      index |-> U16At(data, pos + 6),
                      varbinds |-> <<>>],
             pos |-> pos + 8])

\* What decode_response_pdu adds to bytes_read for a decoded varbind.
bytes_read_step(vb) == 8 + Len(vb.oid) * 4 + 8

RECURSIVE decode_varbinds_loop(_, _, _, _, _, _)
\* The while loop of decode_response_pdu.  Besides the varbinds it collects it
\* gives the cursor it stopped at, the cursor positions it called
\* VarBind::decode at, and whether it left through `Err(_) => break`.
decode_varbinds_loop(data, pos, remaining, bytes_read, varbinds, starts) ==
    IF ~(bytes_read < remaining)
    THEN [varbinds |-> varbinds, pos |-> pos, starts |-> starts, broke |-> FALSE]
    ELSE LET r == VarBind_decode(data, pos)
         IN  IF IsOk(r)
             THEN decode_varbinds_loop(data, r.ok.pos, remaining,
                                       bytes_read + bytes_read_step(r.ok.vb),
                                       Append(varbinds, r.ok.vb), Append(starts, pos))
             ELSE [varbinds |-> varbinds, pos |-> pos, starts |-> Append(starts, pos),
                   broke |-> TRUE]

\* The varbind part of decode_response_pdu, from the cursor ResponsePdu::decode
\* left.
decode_response_varbinds(data, pos, payload_len) ==
    IF payload_len > 8
    THEN decode_varbinds_loop(data, pos, payload_len - 8, 0, <<>>, <<>>)
    ELSE [varbinds |-> <<>>, pos |-> pos, starts |-> <<>>, broke |-> FALSE]

\* decode_response_pdu: an AgentXResponse, or the error.
decode_response_pdu(data, payload_len, unknown) ==
    LET head == ResponsePdu_decode(data, 0, unknown)
    IN  IF ~IsOk(head) THEN head
        ELSE Ok([sys_uptime |-> head.ok.pdu.sys_uptime,
                 error |-> head.ok.pdu.error,
                 index |-> head.ok.pdu.index,
                 varbinds |-> decode_response_varbinds(data, head.ok.pos, payload_len).varbinds])

EncodeOps ==
    {"encode_open_pdu", "encode_close_pdu", "encode_register_pdu", "encode_unregister_pdu",
     "encode_response_pdu", "encode_notify_pdu", "encode_ping_pdu"}

\* The bytes after the header.
BodyOf(buf) == SubSeq(buf, HEADER_SIZE + 1, Len(buf))

\* What a caller hands a decoder of the bytes it received: all of them, all
\* but the last two, or the bytes with more received data behind them.
Shapes == {"whole", "cut", "more"}
MoreData == VarBind_encode([oid |-> <<1>>, value |-> Value(5, 0, <<>>, <<>>)], FALSE)
Shaped(bytes, shape) ==
    CASE shape = "cut" -> SubSeq(bytes, 1, Len(bytes) - 2)
      [] shape = "more" -> bytes \o MoreData
      [] OTHER -> bytes

\* decode_header on the bytes an encoder gave.
DecodeHeader(shape) ==
    /\ op \in EncodeOps /\ ~panicked
    /\ op' = "decode_header"
    /\ arg' = [data |-> Shaped(SubSeq(ret, 1, HEADER_SIZE), shape)]
    /\ val' = [call |-> op, args |-> arg, bytes |-> ret]
    /\ ret' = decode_header(Shaped(SubSeq(ret, 1, HEADER_SIZE), shape))
    /\ UNCHANGED <<root, len, panicked, iter, out>>

\* decode_response_pdu on the body encode_response_pdu gave, with the
\* payload length its header states.
DecodeResponsePdu(shape) ==
    /\ op = "encode_response_pdu" /\ ~panicked
    /\ IsOk(decode_header(ret))
    /\ LET data == Shaped(BodyOf(ret), shape)
           payload_len == decode_header(ret).ok.payload_length
       IN  /\ arg' = [data |-> data, payload_len |-> payload_len, unknown |-> arg.unknown]
           /\ ret' = decode_response_pdu(data, payload_len, arg.unknown)
    /\ op' = "decode_response_pdu"
    /\ val' = [call |-> op, args |-> arg, bytes |-> ret]
    /\ UNCHANGED <<root, len, panicked, iter, out>>

NextCodec ==
    \/ \E ids \in HeaderIds, timeout \in Timeouts, oid \in WireOids,
          description \in Descriptions, pc \in BOOLEAN :
           EncodeOpenPdu(ids, timeout, oid, description, pc)
    \/ \E ids \in HeaderIds, reason \in Reasons : EncodeClosePdu(ids, reason)
    \/ \E ids \in HeaderIds, subtree \in WireOids, priority \in Priorities,
          timeout \in Timeouts, context \in Contexts, pc \in BOOLEAN :
           EncodeRegisterPdu(ids, subtree, priority, timeout, context, pc)
    \/ \E ids \in HeaderIds, subtree \in WireOids, priority \in Priorities,
          context \in Contexts, pc \in BOOLEAN :
           EncodeUnregisterPdu(ids, subtree, priority, context, pc)
    \/ \E ids \in HeaderIds, sys_uptime \in Uptimes, error \in Errors, index \in Indexes,
          varbinds \in VarBindLists, pc \in BOOLEAN :
           \E unknown \in (IF error \in ResponseErrorCodes THEN {0} ELSE ResponseErrorCodes) :
               EncodeResponsePdu(ids, sys_uptime, error, index, varbinds, pc, unknown)
    \/ \E ids \in HeaderIds, varbinds \in VarBindLists, context \in Contexts, pc \in BOOLEAN :
           EncodeNotifyPdu(ids, varbinds, context, pc)
    \/ \E ids \in HeaderIds : EncodePingPdu(ids)
    \/ \E shape \in Shapes : DecodeHeader(shape)
    \/ \E shape \in Shapes : DecodeResponsePdu(shape)
    \/ Release

SpecCodec == Init /\ [][NextCodec]_vars

(***************************************************************************)
(* Claims about the codec.                                                 *)
(***************************************************************************)
ContextOps == {"encode_register_pdu", "encode_unregister_pdu", "encode_notify_pdu"}

\* The body fields PDU o writes from arguments a after the context.
PlainBody(o, a) ==
    CASE o = "encode_register_pdu" ->
             RegisterPdu_encode(RegisterPdu_new(a.subtree, a.priority, a.timeout), a.pc)
      [] o = "encode_unregister_pdu" ->
             UnregisterPdu_encode(UnregisterPdu_new(a.subtree, a.priority), a.pc)
      [] OTHER -> NotifyPdu_encode(a.varbinds, a.pc)

\* C13: the bytes B of every encode_x_pdu call have a length that is a
\* multiple of 4, and the payload_length field of their header is len(B) - 20.
C13_PayloadLength ==
    op \in EncodeOps =>
        /\ Len(ret) >= HEADER_SIZE
        /\ Len(ret) % 4 = 0
        /\ U32At(ret, 16) = Len(ret) - 20

\* C13 witness: a notify PDU with a context whose length is no multiple of 4
\* and with varbinds.
C13_Witness ==
    /\ op = "encode_notify_pdu"
    /\ IsSome(arg.context) /\ Len(Unwrap(arg.context)) % 4 # 0
    /\ Len(arg.varbinds) > 1
    /\ U32At(ret, 16) > 24

\* C14: the header of every encode_x_pdu call has NETWORK_BYTE_ORDER (bit 4)
\* set, with explicit flags and with the header's default flags alike.
C14_NetworkByteOrder ==
    op \in EncodeOps => HasFlag(ret[3], NETWORK_BYTE_ORDER)

\* C14 witness: a PDU encoded on a default-flags path.
C14_Witness ==
    /\ op \in {"encode_open_pdu", "encode_close_pdu", "encode_response_pdu", "encode_ping_pdu"}
    /\ ret[2] = PduType_Ping
    /\ ret[3] = NETWORK_BYTE_ORDER

\* C15: for register, unregister and notify, NON_DEFAULT_CONTEXT (bit 3) is
\* set exactly when a context was given, the empty string included, and
\* exactly then the body starts with the context as a padded octet string,
\* ahead of all other body fields.
C15_ContextFlag ==
    op \in ContextOps =>
        /\ HasFlag(ret[3], NON_DEFAULT_CONTEXT) <=> IsSome(arg.context)
        /\ HasFlag(ret[3], NON_DEFAULT_CONTEXT) =>
               BodyOf(ret) = encode_octet_string(Unwrap(arg.context)) \o PlainBody(op, arg)
        /\ ~HasFlag(ret[3], NON_DEFAULT_CONTEXT) => BodyOf(ret) = PlainBody(op, arg)

\* C15 witness: a register PDU given the empty string as its context.
C15_Witness ==
    /\ op = "encode_register_pdu"
    /\ arg.context = Some(<<>>)
    /\ HasFlag(ret[3], NON_DEFAULT_CONTEXT)
    /\ SubSeq(ret, HEADER_SIZE + 1, HEADER_SIZE + 4) = Zeros(4)

\* decode_response_pdu was given the very body encode_response_pdu wrote.
DecodedWhole == op = "decode_response_pdu" /\ arg.data = BodyOf(val.bytes)

\* C16: decoding the body encode_response_pdu wrote, with the payload_length
\* of its header, gives back the sys_uptime, error, index and varbinds the
\* encoder was given.
C16_ResponseRoundTrip ==
    DecodedWhole =>
        /\ IsOk(ret)
        /\ ret.ok.sys_uptime = val.args.sys_uptime
        /\ ret.ok.error = val.args.error
        /\ ret.ok.index = val.args.index
        /\ ret.ok.varbinds = val.args.varbinds

\* C17: when a field of the input fails to decode, a varbind of a Response
\* payload included, the decode call gives the error and no PDU.
C17_NoPartialDecode ==
    /\ op = "decode_header" /\ ~IsOk(Header_decode(arg.data)) => ~IsOk(ret)
    /\ op = "decode_response_pdu" =>
           LET head == ResponsePdu_decode(arg.data, 0, arg.unknown)
           IN  (\/ ~IsOk(head)
                \/ decode_response_varbinds(arg.data, head.ok.pos, arg.payload_len).broke)
               => ~IsOk(ret)

\* C18: given at least payload_len bytes, decode_response_pdu reads the 8
\* fixed bytes and then varbinds until the cursor is at payload_len: it
\* starts no varbind at or past payload_len and does not stop short of it.
C18_ConsumesPayload ==
    (op = "decode_response_pdu" /\ Len(arg.data) >= arg.payload_len) =>
        LET head == ResponsePdu_decode(arg.data, 0, arg.unknown)
            run == decode_response_varbinds(arg.data, head.ok.pos, arg.payload_len)
        IN  /\ IsOk(head)
            /\ run.pos = arg.payload_len
            /\ \A i \in 1..Len(run.starts) : run.starts[i] < arg.payload_len

\* C19: an error code is kept through encode_response_pdu and
\* decode_response_pdu, whether or not it is one of 0, 256..268.
C19_ErrorPreserved ==
    DecodedWhole => IsOk(ret) /\ ret.ok.error = val.args.error

(***************************************************************************)
(* The text form of an OID: impl Display and impl FromStr of oid/mod.rs.   *)
(* A string is a sequence of one-character strings.  A u32 is the pair     *)
(* <<hi, lo>> of its 16-bit halves, hi * 65536 + lo, so that the whole     *)
(* range up to u32::MAX and the overflow of a parse are computed exactly.  *)
(***************************************************************************)
MaxOidLen == 3

Digits == <<"0", "1", "2", "3", "4", "5", "6", "7", "8", "9">>
IsDigit(c) == \E d \in 1..10 : Digits[d] = c
DigitVal(c) == (CHOOSE d \in 1..10 : Digits[d] = c) - 1

U32_ZERO == <<0, 0>>
U32_MAX == <<65535, 65535>>

\* n / 10 and n % 10 of a u32, by long division over its halves.
u32_div10(n) == <<n[1] \div 10, ((n[1] % 10) * 65536 + n[2]) \div 10>>
u32_mod10(n) == ((n[1] % 10) * 65536 + n[2]) % 10

\* u32::checked_mul(10) followed by checked_add(d): None on overflow.
u32_checked_mul10_add(n, d) ==
    LET lo == n[2] * 10 + d
        hi == n[1] * 10 + lo \div 65536
    IN  IF hi > 65535 THEN None ELSE Some(<<hi, lo % 65536>>)

RECURSIVE u32_digits(_)
\* The decimal digits of n, none for 0.
u32_digits(n) ==
    IF n = U32_ZERO THEN <<>>
    ELSE Append(u32_digits(u32_div10(n)), Digits[u32_mod10(n) + 1])

\* u32::to_string
u32_to_string(n) == IF n = U32_ZERO THEN <<"0">> ELSE u32_digits(n)

RECURSIVE str_join(_, _)
\* [String]::join
str_join(strs, sep) ==
    IF Len(strs) = 0 THEN <<>>
    ELSE IF Len(strs) = 1 THEN strs[1]
    ELSE strs[1] \o sep \o str_join(Tail(strs), sep)

\* impl Display for Oid
Oid_to_string(parts) ==
    str_join([i \in 1..Len(parts) |-> u32_to_string(parts[i])], <<".">>)

RECURSIVE str_trim_start(_)
str_trim_start(s) ==
    IF Len(s) > 0 /\ s[1] = " " THEN str_trim_start(Tail(s)) ELSE s

RECURSIVE str_trim_end(_)
str_trim_end(s) ==
    IF Len(s) > 0 /\ s[Len(s)] = " " THEN str_trim_end(SubSeq(s, 1, Len(s) - 1)) ELSE s

\* str::trim
str_trim(s) == str_trim_end(str_trim_start(s))

\* s.strip_prefix('.').unwrap_or(s)
strip_prefix_dot(s) == IF Len(s) > 0 /\ s[1] = "." THEN Tail(s) ELSE s

RECURSIVE str_split(_, _, _)
\* str::split: the pieces between separators, empty pieces included; cur is
\* the piece being read.
str_split(s, sep, cur) ==
    IF Len(s) = 0 THEN <<cur>>
    ELSE IF s[1] = sep THEN <<cur>> \o str_split(Tail(s), sep, <<>>)
    ELSE str_split(Tail(s), sep, Append(cur, s[1]))

RECURSIVE u32_parse_digits(_, _)
\* The digit loop of u32::from_str: None on a character that is no digit and
\* on overflow.
u32_parse_digits(s, acc) ==
    IF Len(s) = 0 THEN Some(acc)
    ELSE IF ~IsDigit(s[1]) THEN None
    ELSE LET next == u32_checked_mul10_add(acc, DigitVal(s[1]))
         IN  IF IsSome(next) THEN u32_parse_digits(Tail(s), Unwrap(next)) ELSE None

\* A slip in the parse: the part is parsed as an i32.
u32_parse_as_i32(part) ==
    LET digits == IF Len(part) > 0 /\ part[1] = "+" THEN Tail(part) ELSE part
        n == IF Len(digits) = 0 THEN None ELSE u32_parse_digits(digits, U32_ZERO)
    IN  IF IsSome(n) /\ Unwrap(n)[1] > 32767 THEN None ELSE n

\* part.parse::<u32>(): decimal digits after an optional "+"; None for an
\* error.
u32_parse(part) ==
    LET digits == IF Len(part) > 0 /\ part[1] = "+" THEN Tail(part) ELSE part
    IN  IF Len(digits) = 0 THEN None ELSE u32_parse_digits(digits, U32_ZERO)

\* impl FromStr for Oid
Oid_from_str(text) ==
    LET s == strip_prefix_dot(str_trim(text))
    IN  IF Len(s) = 0 THEN Err("Empty")
        ELSE LET pieces == str_split(s, ".", <<>>)
                 parsed == [i \in 1..Len(pieces) |-> u32_parse(pieces[i])]
             IN  IF \E i \in 1..Len(pieces) : ~IsSome(parsed[i]) THEN Err("InvalidPart")
                 ELSE LET parts == [i \in 1..Len(pieces) |-> Unwrap(parsed[i])]
                      IN  IF IsSome(Oid_new(parts)) THEN Ok(parts) ELSE Err("Empty")

\* 0, 7, 10, 65536, 305419896, u32::MAX
SubIds == {U32_ZERO, <<0, 7>>, <<0, 10>>, <<1, 0>>, <<4660, 22136>>, U32_MAX}

RECURSIVE SubIdSeqs(_)
SubIdSeqs(n) ==
    IF n = 0 THEN {<<>>}
    ELSE LET shorter == SubIdSeqs(n - 1)
         IN  shorter \cup {Append(s, x) : s \in {t \in shorter : Len(t) = n - 1}, x \in SubIds}

\* The OIDs Oid::new gives for sequences of at most MaxOidLen sub-identifiers.
TextOids == {Unwrap(Oid_new(s)) : s \in {t \in SubIdSeqs(MaxOidLen) : IsSome(Oid_new(t))}}

\* "", ".", " 1.7 ", "1..7", "1.7.", "+7", "-7", "1.x", "4294967296", "007"
OddTexts ==
    {<<>>, <<".">>, <<" ", "1", ".", "7", " ">>, <<"1", ".", ".", "7">>,
     <<"1", ".", "7", ".">>, <<"+", "7">>, <<"-", "7">>, <<"1", ".", "x">>,
     <<"4", "2", "9", "4", "9", "6", "7", "2", "9", "6">>, <<"0", "0", "7">>}

\* oid.to_string()
OidToString(oid) ==
    /\ Idle
    /\ op' = "to_string"
    /\ arg' = oid
    /\ ret' = Oid_to_string(oid)
    /\ UNCHANGED <<root, len, val, panicked, iter, out>>

\* text.parse::<Oid>() on a text written by hand.
OidFromStr(text) ==
    /\ Idle
    /\ op' = "from_str"
    /\ arg' = text
    /\ ret' = Oid_from_str(text)
    /\ UNCHANGED <<root, len, val, panicked, iter, out>>

\* text.parse::<Oid>() on the text to_string gave, as it is or behind one dot;
\* val keeps the OID the text was made from.
OidParseBack(dot) ==
    /\ op = "to_string" /\ ~panicked
    /\ op' = "from_str"
    /\ arg' = (IF dot THEN <<".">> ELSE <<>>) \o ret
    /\ val' = Some(arg)
    /\ ret' = Oid_from_str((IF dot THEN <<".">> ELSE <<>>) \o ret)
    /\ UNCHANGED <<root, len, panicked, iter, out>>

NextOid ==
    \/ \E oid \in TextOids : OidToString(oid)
    \/ \E text \in OddTexts : OidFromStr(text)
    \/ \E dot \in BOOLEAN : OidParseBack(dot)
    \/ Release

SpecOid == Init /\ [][NextOid]_vars

\* C20: for every OID o, parsing to_string(o) gives an OID equal to o, and so
\* does parsing the same text behind one leading dot.
C20_TextRoundTrip ==
    (op = "from_str" /\ IsSome(val)) =>
        LET o == Unwrap(val)
        IN  /\ arg \in {Oid_to_string(o), <<".">> \o Oid_to_string(o)}
            /\ ret = Ok(o)

\* C20 witness: an OID with u32::MAX in it came back from its text behind a
\* leading dot.
C20_Witness ==
    /\ op = "from_str" /\ IsSome(val)
    /\ arg[1] = "."
    /\ Len(Unwrap(val)) > 1
    /\ \E i \in 1..Len(Unwrap(val)) : Unwrap(val)[i] = U32_MAX
    /\ IsOk(ret)

(***************************************************************************)
(* Claims about get_next's descent and about what insert and remove leave  *)
(* alone.                                                                  *)
(***************************************************************************)
\* How many sub-identifiers of q the descent from the root can follow.
ReachedDepth(node, q) ==
    CHOOSE d \in 0..Len(q) :
        /\ SubSeq(q, 1, d) \in NodePaths(node, <<>>)
        /\ d < Len(q) => SubSeq(q, 1, d + 1) \notin NodePaths(node, <<>>)

\* get_next(q) was called and its descent left the trie before q was used up.
WalkedOff == op = "get_next" /\ ReachedDepth(root, arg) < Len(arg)

\* The entries in the subtree at path p.
Under(entries, p) == {e \in entries : starts_with(e[1], p)}

\* C21 as stated: when the descent of get_next leaves the trie before the
\* target is used up, the answer is the value of the deepest node reached if
\* it holds one, and otherwise the first value in that node's next sibling
\* subtree at the enclosing level.
C21_DeepestNodeAnswers ==
    WalkedOff =>
        LET d == ReachedDepth(root, arg)
            p == SubSeq(arg, 1, d)
            deepest == NodeAt(root, p, 1)
            parent == NodeAt(root, SubSeq(arg, 1, d - 1), 1)
            later == {k \in DOMAIN parent.children : k > arg[d]}
        IN  IF IsSome(deepest.value)
            THEN ret = Some(<<p, Unwrap(deepest.value)>>)
            ELSE d > 0 /\ later # {} =>
                     LET sibling == Append(SubSeq(arg, 1, d - 1), Min(later))
                     IN  ret = Some(LeastEntry(Under(Stored, sibling)))

\* C21, amended: when the descent of get_next leaves the trie at a node
\* before the target is used up, the answer is never that node's own value:
\* it is the first value under the node's children whose sub-identifier is
\* greater than the target's next one; failing that, the first value in the
\* nearest following sibling subtree of the node or of one of its ancestors;
\* and None when there is neither.
C21_WalkOffSkipsNode ==
    WalkedOff =>
        LET d == ReachedDepth(root, arg)
            p == SubSeq(arg, 1, d)
            below == {e \in Under(Stored, p) : Len(e[1]) > d /\ e[1][d + 1] > arg[d + 1]}
            beside == {e \in Stored \ Under(Stored, p) : OidLess(arg, e[1])}
        IN  /\ ret = IF below # {} THEN Some(LeastEntry(below))
                     ELSE IF beside # {} THEN Some(LeastEntry(beside))
                     ELSE None
            /\ IsSome(ret) => Unwrap(ret)[1] # p

\* C21 witness: the descent stopped at a node that holds a value and has a
\* child past the target's next sub-identifier; that child's value came back.
C21_Witness ==
    /\ WalkedOff
    /\ ReachedDepth(root, arg) > 0
    /\ IsSome(get(root, SubSeq(arg, 1, ReachedDepth(root, arg))))
    /\ IsSome(ret)
    /\ starts_with(Unwrap(ret)[1], SubSeq(arg, 1, ReachedDepth(root, arg)))
\* C22: remove(o) on an OID that holds no value returns None and leaves the
\* trie as it was: the same nodes and the same len, and with them the same
\* answers of get, longest_prefix, get_next and iter, which read nothing else.
C22_RemoveAbsentKeepsTrie ==
    [][(op' = "remove" /\ Lookup(Stored, arg') = None) =>
          /\ ret' = None
          /\ root' = root
          /\ len' = len
          /\ \A q \in QueryOids :
                 /\ get(root', q) = get(root, q)
                 /\ longest_prefix(root', q) = longest_prefix(root, q)
                 /\ get_next(root', q) = get_next(root, q)]_vars

\* C22 witness: a remove whose path left the trie part-way returned None.
C22_Witness ==
    /\ op = "remove" /\ ret = None
    /\ Len(arg) >= 2
    /\ SubSeq(arg, 1, 1) \in NodePaths(root, <<>>)
    /\ arg \notin NodePaths(root, <<>>)

\* C23: insert(o, v) and remove(o) change the entry at o only: get(p) gives
\* the same before and after for every OID p other than o, prefixes,
\* extensions and siblings of o included.
C23_OtherEntriesKept ==
    [][op' \in {"insert", "remove"} =>
          \A p \in QueryOids \ {arg'} : get(root', p) = get(root, p)]_vars

\* C23 witness: a remove took a value whose parent node stays for a sibling.
C23_Witness ==
    /\ op = "remove" /\ IsSome(ret)
    /\ Len(arg) >= 2
    /\ \E k \in Keys :
           /\ Len(k) = Len(arg)
           /\ SubSeq(k, 1, Len(k) - 1) = SubSeq(arg, 1, Len(arg) - 1)

\* C24: for an OID o that holds no value, insert(o, v) followed by remove(o)
\* returns Some(v) and gives back the trie as it was before the insert: the
\* same nodes, the same values and the same len.
C24_InsertRemoveRestores ==
    [][(op' = "insert" /\ Lookup(Stored, arg') = None) =>
          LET removed == remove_recursive(root', arg', 0)
          IN  /\ removed.value = val'
              /\ removed.node = root
              /\ NodePaths(removed.node, <<>>) = NodePaths(root, <<>>)
              /\ Entries(removed.node, <<>>) = Stored
              /\ len_after_remove(len', removed.value) = len]_vars

\* C24 witness: an insert made a chain of new nodes next to an entry that was
\* there before; removing its OID prunes the whole chain.
C24_Witness ==
    /\ op = "insert" /\ ret = None
    /\ Len(arg) >= 2
    /\ len > 1
    /\ SubSeq(arg, 1, 1) \notin NodePaths(remove_recursive(root, arg, 0).node, <<>>)

====
